---- MODULE Spec2Model ----
(***************************************************************************)
(* A model of src/main.c: a command-line utility that encrypts or decrypts *)
(* a file with 3DES in CBC mode (OpenSSL EVP), the key and IV derived from *)
(* a password with EVP_BytesToKey (SHA-256, no salt, one iteration).       *)
(*                                                                         *)
(* The state is the state of one invocation of main (its position, the     *)
(* input and output files, the read offset, the EVP cipher context, the    *)
(* exit status), followed by a second invocation that decrypts what the    *)
(* first one wrote, possibly after the file was truncated or modified.     *)
(*                                                                         *)
(* The OpenSSL primitives are modelled by what the EVP layer does around   *)
(* the block cipher (partial-block buffer, held-back final block, PKCS#7   *)
(* padding, CBC chaining); the 64-bit block permutation and the digest     *)
(* themselves are small keyed stand-ins with the same shape (a keyed       *)
(* bijection on 8-byte blocks used as encrypt-decrypt-encrypt; a           *)
(* deterministic 32-byte digest).                                          *)
(***************************************************************************)
EXTENDS Integers, Sequences, FiniteSets, TLC

(***************************************************************************)
(* Sizes.                                                                  *)
(***************************************************************************)
\* EVP_CIPHER_block_size(EVP_des_ede3_cbc()): the 64-bit block.
BLOCK == 8
\* Key and IV length of EVP_des_ede3_cbc(), digest length of EVP_sha256().
KEY_LEN == 24
IV_LEN == 8
MD_LEN == 32
\* The most bytes one fread returns: the model's value of BUF_SIZE, which
\* the program sets to 1024*1024.
BUF_SIZE == 10
\* The longest plaintext file.
MaxLen == 17
\* The most bytes cut from the end of a ciphertext before it is decrypted.
MaxCut == 9

Byte == 0..255

(***************************************************************************)
(* Bytes and blocks.                                                       *)
(***************************************************************************)
RECURSIVE XorBits(_, _, _)
XorBits(a, b, n) ==
  IF n = 0 THEN 0
  ELSE ((a + b) % 2) + 2 * XorBits(a \div 2, b \div 2, n - 1)

\* a ^ b on unsigned char, as a table computed once (entry 256 * a + b + 1).
XorTab ==
  SubSeq([n \in 1..65536 |-> XorBits((n - 1) \div 256, (n - 1) % 256, 8)], 1, 65536)

XorByte(a, b) == XorTab[256 * a + b + 1]

XorBlock(x, y) == SubSeq([i \in 1..BLOCK |-> XorByte(x[i], y[i])], 1, BLOCK)

Take(s, n) == SubSeq(s, 1, n)
Drop(s, n) == SubSeq(s, n + 1, Len(s))
Repeat(v, n) == [i \in 1..n |-> v]

(***************************************************************************)
(* The block cipher: EVP_des_ede3_cbc().  Des is the stand-in for one DES  *)
(* pass (a keyed bijection on 8-byte blocks), DesInv its inverse, and the  *)
(* triple cipher is encrypt(k1), decrypt(k2), encrypt(k3) as in 3DES-EDE.  *)
(***************************************************************************)
Des(k, b) ==
  SubSeq([i \in 1..BLOCK |-> (XorByte(b[(i % BLOCK) + 1], k[i]) + 17 * i) % 256],
         1, BLOCK)

DesInv(k, c) ==
  SubSeq([j \in 1..BLOCK |->
            LET i == ((j + BLOCK - 2) % BLOCK) + 1
            IN XorByte((c[i] + 256 - ((17 * i) % 256)) % 256, k[i])],
         1, BLOCK)

DesEde3Encrypt(key, b) ==
  Des(SubSeq(key, 17, 24), DesInv(SubSeq(key, 9, 16), Des(SubSeq(key, 1, 8), b)))

DesEde3Decrypt(key, c) ==
  DesInv(SubSeq(key, 1, 8), Des(SubSeq(key, 9, 16), DesInv(SubSeq(key, 17, 24), c)))

(***************************************************************************)
(* CBC over whole blocks: the cipher's do_cipher, which also advances the  *)
(* context's IV (the previous ciphertext block).  data is a multiple of    *)
(* BLOCK long.  The result is <<output, new iv>>.                          *)
(***************************************************************************)
RECURSIVE CbcEncrypt(_, _, _)
CbcEncrypt(key, iv, data) ==
  IF Len(data) = 0 THEN <<<< >>, iv>>
  ELSE LET c == DesEde3Encrypt(key, XorBlock(Take(data, BLOCK), iv))
           r == CbcEncrypt(key, c, Drop(data, BLOCK))
       IN <<c \o r[1], r[2]>>

RECURSIVE CbcDecrypt(_, _, _)
CbcDecrypt(key, iv, data) ==
  IF Len(data) = 0 THEN <<<< >>, iv>>
  ELSE LET c == Take(data, BLOCK)
           p == XorBlock(DesEde3Decrypt(key, c), iv)
           r == CbcDecrypt(key, c, Drop(data, BLOCK))
       IN <<p \o r[1], r[2]>>

do_cipher(c, data) ==
  LET r == IF c.encrypt THEN CbcEncrypt(c.key, c.iv, data)
                        ELSE CbcDecrypt(c.key, c.iv, data)
  IN [ctx |-> [c EXCEPT !.iv = r[2]], out |-> r[1]]

(***************************************************************************)
(* Key derivation: generate_key_iv, i.e. EVP_BytesToKey(cipher, sha256,    *)
(* salt = NULL, password, strlen(password), count = 1, key, iv).           *)
(***************************************************************************)
RECURSIVE WeightedSum(_, _, _)
WeightedSum(m, i, j) ==
  IF j > Len(m) THEN 0 ELSE m[j] * (i + j) + WeightedSum(m, i, j + 1)

\* The stand-in for SHA-256: a deterministic MD_LEN-byte digest of m.
Sha256(m) ==
  [i \in 1..MD_LEN |-> (WeightedSum(m, i, 1) + 13 * i * i + 7 * Len(m)) % 256]

\* D_1 = H(password), D_i = H(D_(i-1) || password), concatenated until
\* KEY_LEN + IV_LEN bytes are there.
RECURSIVE BytesToKey(_, _, _)
BytesToKey(password, prev, acc) ==
  IF Len(acc) >= KEY_LEN + IV_LEN THEN acc
  ELSE LET d == Sha256(prev \o password)
       IN BytesToKey(password, d, acc \o d)

generate_key_iv(password) ==
  LET m == BytesToKey(password, << >>, << >>)
  IN [key |-> Take(m, KEY_LEN), iv |-> SubSeq(m, KEY_LEN + 1, KEY_LEN + IV_LEN)]

(***************************************************************************)
(* The EVP cipher context and the calls made on it.                        *)
(*   buf         the bytes of a block not yet complete (buf_len = Len)     *)
(*   final       decryption: the last decrypted block, held back           *)
(*   final_used  decryption: whether final holds a block                   *)
(***************************************************************************)
NoCtx ==
  [encrypt |-> FALSE, key |-> << >>, iv |-> << >>, buf |-> << >>,
   final |-> << >>, final_used |-> FALSE]

\* EVP_EncryptInit_ex / EVP_DecryptInit_ex(ctx, EVP_des_ede3_cbc(), NULL, key, iv)
EVP_CipherInit(enc, key, iv) ==
  [ok |-> Len(key) = KEY_LEN /\ Len(iv) = IV_LEN,
   ctx |-> [encrypt |-> enc, key |-> key, iv |-> iv, buf |-> << >>,
            final |-> << >>, final_used |-> FALSE]]

\* Mutant: bytes that do not complete a block replace the buffered ones
\* instead of following them.
EVP_EncryptUpdate_BufferOverwritten(c, in) ==
  LET i == Len(c.buf)
      inl == Len(in)
  IN IF i = 0 /\ inl % BLOCK = 0
       THEN LET r == do_cipher(c, in) IN [ok |-> TRUE, ctx |-> r.ctx, out |-> r.out]
     ELSE IF i # 0 /\ BLOCK - i > inl
       THEN [ok |-> TRUE, ctx |-> [c EXCEPT !.buf = in], out |-> << >>]
     ELSE LET j == IF i # 0 THEN BLOCK - i ELSE 0
              first == IF i # 0 THEN c.buf \o Take(in, j) ELSE << >>
              rest == Drop(in, j)
              tail == Len(rest) % BLOCK
              r == do_cipher(c, first \o Take(rest, Len(rest) - tail))
          IN [ok |-> TRUE,
              ctx |-> [r.ctx EXCEPT !.buf = Drop(rest, Len(rest) - tail)],
              out |-> r.out]

\* EVP_EncryptUpdate(ctx, out, &out_len, in, inl), inl > 0.
EVP_EncryptUpdate(c, in) ==
  LET i == Len(c.buf)
      inl == Len(in)
  IN IF i = 0 /\ inl % BLOCK = 0
       THEN LET r == do_cipher(c, in) IN [ok |-> TRUE, ctx |-> r.ctx, out |-> r.out]
     ELSE IF i # 0 /\ BLOCK - i > inl
       THEN [ok |-> TRUE, ctx |-> [c EXCEPT !.buf = c.buf \o in], out |-> << >>]
     ELSE LET j == IF i # 0 THEN BLOCK - i ELSE 0
              first == IF i # 0 THEN c.buf \o Take(in, j) ELSE << >>
              rest == Drop(in, j)
              tail == Len(rest) % BLOCK
              r == do_cipher(c, first \o Take(rest, Len(rest) - tail))
          IN [ok |-> TRUE,
              ctx |-> [r.ctx EXCEPT !.buf = Drop(rest, Len(rest) - tail)],
              out |-> r.out]

\* Mutant: the padding bytes have the value BLOCK whatever their number.
EVP_EncryptFinal_ex_PadValueBlock(c) ==
  LET n == BLOCK - Len(c.buf)
      r == do_cipher(c, c.buf \o Repeat(BLOCK, n))
  IN [ok |-> TRUE, ctx |-> [r.ctx EXCEPT !.buf = << >>], out |-> r.out]

\* EVP_EncryptFinal_ex(ctx, out, &out_len): pad the buffered bytes to a block
\* with n bytes of value n, n = BLOCK - buf_len, and encrypt that block.
EVP_EncryptFinal_ex(c) ==
  LET n == BLOCK - Len(c.buf)
      r == do_cipher(c, c.buf \o Repeat(n, n))
  IN [ok |-> TRUE, ctx |-> [r.ctx EXCEPT !.buf = << >>], out |-> r.out]

\* Mutant: no block is held back.
EVP_DecryptUpdate_NothingHeld(c, in) ==
  LET r == EVP_EncryptUpdate(c, in)
  IN [ok |-> r.ok, ctx |-> [r.ctx EXCEPT !.final_used = FALSE], out |-> r.out]

\* EVP_DecryptUpdate(ctx, out, &out_len, in, inl), inl > 0: the block held
\* back by the previous call goes out first; when the data ends on a block
\* boundary the last decrypted block is held back.
EVP_DecryptUpdate(c, in) ==
  LET held == IF c.final_used THEN c.final ELSE << >>
      r == EVP_EncryptUpdate(c, in)
  IN IF Len(r.ctx.buf) = 0
       THEN [ok |-> r.ok,
             ctx |-> [r.ctx EXCEPT !.final_used = TRUE,
                                   !.final = Drop(r.out, Len(r.out) - BLOCK)],
             out |-> held \o Take(r.out, Len(r.out) - BLOCK)]
       ELSE [ok |-> r.ok,
             ctx |-> [r.ctx EXCEPT !.final_used = FALSE],
             out |-> held \o r.out]

\* Mutant: only the count is checked, not the bytes before it.
EVP_DecryptFinal_ex_CountOnly(c) ==
  IF Len(c.buf) # 0 \/ ~c.final_used
    THEN [ok |-> FALSE, ctx |-> c, out |-> << >>]
  ELSE LET n == c.final[BLOCK]
       IN IF n = 0 \/ n > BLOCK
            THEN [ok |-> FALSE, ctx |-> c, out |-> << >>]
          ELSE [ok |-> TRUE, ctx |-> c, out |-> Take(c.final, BLOCK - n)]

\* EVP_DecryptFinal_ex(ctx, out, &out_len): fails on a partial block or when
\* no block is held; otherwise checks the padding of the held block and
\* returns the block without it.
EVP_DecryptFinal_ex(c) ==
  IF Len(c.buf) # 0 \/ ~c.final_used
    THEN [ok |-> FALSE, ctx |-> c, out |-> << >>]
  ELSE LET n == c.final[BLOCK]
       IN IF n = 0 \/ n > BLOCK
            THEN [ok |-> FALSE, ctx |-> c, out |-> << >>]
          ELSE IF \E i \in (BLOCK - n + 1)..BLOCK : c.final[i] # n
            THEN [ok |-> FALSE, ctx |-> c, out |-> << >>]
          ELSE [ok |-> TRUE, ctx |-> c, out |-> Take(c.final, BLOCK - n)]

(***************************************************************************)
(* The inputs: passwords (C strings from argv), plaintext files, and what  *)
(* may happen to a ciphertext file between the two invocations.            *)
(***************************************************************************)
\* "hunter2" and "a".
Passwords == {<<104, 117, 110, 116, 101, 114, 50>>, <<97>>}

\* "hello world"
HelloWorld == <<104, 101, 108, 108, 111, 32, 119, 111, 114, 108, 100>>

\* Files of every length up to MaxLen: "hello world" repeated, and files of
\* bytes 0x01 (whose every prefix ends like a one-byte padding).
Inputs ==
  {[i \in 1..n |-> HelloWorld[((i - 1) % Len(HelloWorld)) + 1]] : n \in 0..MaxLen}
  \cup {Repeat(1, n) : n \in 1..MaxLen}

\* The output file's content before the program opens it.
Stale == <<170>>

FlipPos == {1, 9, 11}
FlipDelta == {1, 4, 8}

Tampers ==
  {[kind |-> "none", n |-> 0, d |-> 0]}
  \cup {[kind |-> "cut", n |-> t, d |-> 0] : t \in 1..MaxCut}
  \cup {[kind |-> "flip", n |-> q, d |-> d] : q \in FlipPos, d \in FlipDelta}

\* The file after the tamper: the last t.n bytes cut, or the byte t.n from
\* the end xor-ed with t.d.
ApplyTamper(f, t) ==
  IF t.kind = "cut" THEN Take(f, Len(f) - t.n)
  ELSE IF t.kind = "flip"
    THEN [f EXCEPT ![Len(f) - t.n + 1] = XorByte(@, t.d)]
  ELSE f

(***************************************************************************)
(* The state.                                                              *)
(***************************************************************************)
VARIABLES
  run,        \* "enc": main -e is running; "dec": main -d is running
  pc,         \* "main", "open", "loop", "final", "exit"
  plain,      \* the plaintext file given to the encryption
  pw1,        \* the password of the encryption
  pw2,        \* the password of the decryption
  inFile,     \* the bytes of the input file of this invocation
  pos,        \* how many of them fread has returned
  outFile,    \* the bytes of the output file
  ctx,        \* the EVP_CIPHER_CTX
  exitCode,   \* the process's exit status, -1 while it runs
  cipherText, \* what the encryption wrote (kept for the decryption's check)
  tamper,     \* what was done to it before the decryption
  finals,     \* how many times EVP_*Final_ex was called in this invocation
  ioError     \* whether a fread or fwrite of this invocation failed

vars ==
  <<run, pc, plain, pw1, pw2, inFile, pos, outFile, ctx, exitCode,
    cipherText, tamper, finals, ioError>>

password == IF run = "enc" THEN pw1 ELSE pw2

Init ==
  /\ run = "enc"
  /\ pc = "main"
  /\ plain \in Inputs
  /\ pw1 \in Passwords
  /\ pw2 = pw1
  /\ inFile = plain
  /\ pos = 0
  /\ outFile = Stale
  /\ ctx = NoCtx
  /\ exitCode = -1
  /\ cipherText = << >>
  /\ tamper = [kind |-> "none", n |-> 0, d |-> 0]
  /\ finals = 0
  /\ ioError = FALSE

scenario == <<plain, pw1, pw2, cipherText, tamper>>

\* exit(1): the process ends; stdio flushes what fwrite was given.
Exit1 ==
  /\ pc' = "exit"
  /\ exitCode' = 1

(***************************************************************************)
(* main: the options are parsed and encrypt_file or decrypt_file called.   *)
(***************************************************************************)
main ==
  /\ pc = "main"
  /\ pc' = "open"
  /\ UNCHANGED <<run, inFile, pos, outFile, ctx, exitCode, finals, ioError, scenario>>

(***************************************************************************)
(* encrypt_file                                                            *)
(***************************************************************************)
\* fopen both files ("wb" truncates the output), derive the key and IV,
\* create and initialise the context.
encrypt_file_open ==
  /\ run = "enc"
  /\ pc = "open"
  /\ LET k == generate_key_iv(password)
         r == EVP_CipherInit(TRUE, k.key, k.iv)
     IN /\ outFile' = << >>
        /\ IF r.ok
             THEN /\ ctx' = r.ctx
                  /\ pc' = "loop"
                  /\ UNCHANGED exitCode
             ELSE /\ Exit1
                  /\ UNCHANGED ctx
  /\ UNCHANGED <<run, inFile, pos, finals, ioError, scenario>>

\* One iteration of the read loop: fread returns k > 0 bytes, they are
\* encrypted, and what came out is given to fwrite.  written: whether fwrite
\* wrote it (its return value is not looked at).
EncRead(k, written) ==
  /\ run = "enc"
  /\ pc = "loop"
  /\ k \in 1..BUF_SIZE
  /\ pos + k <= Len(inFile)
  /\ \E r \in {EVP_EncryptUpdate(ctx, SubSeq(inFile, pos + 1, pos + k))} :
       IF r.ok
         THEN /\ ctx' = r.ctx
              /\ pos' = pos + k
              /\ written \/ Len(r.out) > 0
              /\ outFile' = IF written THEN outFile \o r.out ELSE outFile
              /\ ioError' = (ioError \/ ~written)
              /\ UNCHANGED <<pc, exitCode>>
         ELSE /\ Exit1
              /\ pos' = pos + k
              /\ UNCHANGED <<ctx, outFile, ioError>>
  /\ UNCHANGED <<run, inFile, finals, scenario>>

encrypt_file_read == \E k \in 1..BUF_SIZE : EncRead(k, TRUE)

\* fread returns 0 at end of file: the loop is left.
encrypt_file_eof ==
  /\ run = "enc"
  /\ pc = "loop"
  /\ pos = Len(inFile)
  /\ pc' = "final"
  /\ UNCHANGED <<run, inFile, pos, outFile, ctx, exitCode, finals, ioError, scenario>>

\* Mutant: the fwrite after EVP_EncryptFinal_ex is missing.
EncFinal_LastBlockNotWritten(written) ==
  /\ run = "enc"
  /\ pc = "final"
  /\ finals' = finals + 1
  /\ \E r \in {EVP_EncryptFinal_ex(ctx)} :
       IF r.ok
         THEN /\ ctx' = r.ctx
              /\ pc' = "exit"
              /\ exitCode' = 0
              /\ UNCHANGED <<outFile, ioError>>
         ELSE /\ Exit1
              /\ UNCHANGED <<ctx, outFile, ioError>>
  /\ UNCHANGED <<run, inFile, pos, scenario>>

\* EVP_EncryptFinal_ex, fwrite of the last block, free, fclose, return; main
\* returns 0.
EncFinal(written) ==
  /\ run = "enc"
  /\ pc = "final"
  /\ finals' = finals + 1
  /\ \E r \in {EVP_EncryptFinal_ex(ctx)} :
       IF r.ok
         THEN /\ ctx' = r.ctx
              /\ written \/ Len(r.out) > 0
              /\ outFile' = IF written THEN outFile \o r.out ELSE outFile
              /\ ioError' = (ioError \/ ~written)
              /\ pc' = "exit"
              /\ exitCode' = 0
         ELSE /\ Exit1
              /\ UNCHANGED <<ctx, outFile, ioError>>
  /\ UNCHANGED <<run, inFile, pos, scenario>>

encrypt_file_final == EncFinal(TRUE)

(***************************************************************************)
(* decrypt_file                                                            *)
(***************************************************************************)
\* Mutant: the context is initialised with EVP_EncryptInit_ex.
decrypt_file_open_EncryptInit ==
  /\ run = "dec"
  /\ pc = "open"
  /\ LET k == generate_key_iv(password)
         r == EVP_CipherInit(TRUE, k.key, k.iv)
     IN /\ outFile' = << >>
        /\ IF r.ok
             THEN /\ ctx' = r.ctx
                  /\ pc' = "loop"
                  /\ UNCHANGED exitCode
             ELSE /\ Exit1
                  /\ UNCHANGED ctx
  /\ UNCHANGED <<run, inFile, pos, finals, ioError, scenario>>

\* fopen both files, derive the key and IV, create and initialise the
\* context for decryption.
decrypt_file_open ==
  /\ run = "dec"
  /\ pc = "open"
  /\ LET k == generate_key_iv(password)
         r == EVP_CipherInit(FALSE, k.key, k.iv)
     IN /\ outFile' = << >>
        /\ IF r.ok
             THEN /\ ctx' = r.ctx
                  /\ pc' = "loop"
                  /\ UNCHANGED exitCode
             ELSE /\ Exit1
                  /\ UNCHANGED ctx
  /\ UNCHANGED <<run, inFile, pos, finals, ioError, scenario>>

DecRead(k, written) ==
  /\ run = "dec"
  /\ pc = "loop"
  /\ k \in 1..BUF_SIZE
  /\ pos + k <= Len(inFile)
  /\ \E r \in {EVP_DecryptUpdate(ctx, SubSeq(inFile, pos + 1, pos + k))} :
       IF r.ok
         THEN /\ ctx' = r.ctx
              /\ pos' = pos + k
              /\ written \/ Len(r.out) > 0
              /\ outFile' = IF written THEN outFile \o r.out ELSE outFile
              /\ ioError' = (ioError \/ ~written)
              /\ UNCHANGED <<pc, exitCode>>
         ELSE /\ Exit1
              /\ pos' = pos + k
              /\ UNCHANGED <<ctx, outFile, ioError>>
  /\ UNCHANGED <<run, inFile, finals, scenario>>

decrypt_file_read == \E k \in 1..BUF_SIZE : DecRead(k, TRUE)

decrypt_file_eof ==
  /\ run = "dec"
  /\ pc = "loop"
  /\ pos = Len(inFile)
  /\ pc' = "final"
  /\ UNCHANGED <<run, inFile, pos, outFile, ctx, exitCode, finals, ioError, scenario>>

\* Mutant: when EVP_DecryptFinal_ex fails the output file is emptied.
DecFinal_OutputRemoved(written) ==
  /\ run = "dec"
  /\ pc = "final"
  /\ finals' = finals + 1
  /\ \E r \in {EVP_DecryptFinal_ex(ctx)} :
       IF r.ok
         THEN /\ ctx' = r.ctx
              /\ written \/ Len(r.out) > 0
              /\ outFile' = IF written THEN outFile \o r.out ELSE outFile
              /\ ioError' = (ioError \/ ~written)
              /\ pc' = "exit"
              /\ exitCode' = 0
         ELSE /\ Exit1
              /\ outFile' = << >>
              /\ UNCHANGED <<ctx, ioError>>
  /\ UNCHANGED <<run, inFile, pos, scenario>>

\* EVP_DecryptFinal_ex; when it fails: the message, free, exit(1).
DecFinal(written) ==
  /\ run = "dec"
  /\ pc = "final"
  /\ finals' = finals + 1
  /\ \E r \in {EVP_DecryptFinal_ex(ctx)} :
       IF r.ok
         THEN /\ ctx' = r.ctx
              /\ written \/ Len(r.out) > 0
              /\ outFile' = IF written THEN outFile \o r.out ELSE outFile
              /\ ioError' = (ioError \/ ~written)
              /\ pc' = "exit"
              /\ exitCode' = 0
         ELSE /\ Exit1
              /\ UNCHANGED <<ctx, outFile, ioError>>
  /\ UNCHANGED <<run, inFile, pos, scenario>>

decrypt_file_final == DecFinal(TRUE)

(***************************************************************************)
(* The second invocation: the file the encryption wrote is given to        *)
(* main -d, either as it is with any password, or truncated or with one    *)
(* byte changed with the password of the encryption.                       *)
(***************************************************************************)
InvokeDecrypt ==
  /\ run = "enc"
  /\ pc = "exit"
  /\ exitCode = 0
  /\ ~ioError
  /\ \E t \in Tampers, p \in Passwords :
       /\ t.n <= Len(outFile)
       /\ p # pw1 => t.kind = "none"
       /\ tamper' = t
       /\ pw2' = p
       /\ inFile' = ApplyTamper(outFile, t)
  /\ cipherText' = outFile
  /\ run' = "dec"
  /\ pc' = "main"
  /\ pos' = 0
  /\ outFile' = Stale
  /\ ctx' = NoCtx
  /\ exitCode' = -1
  /\ finals' = 0
  /\ UNCHANGED <<plain, pw1, ioError>>

(***************************************************************************)
(* Failing streams.  fread returns 0 on an error as it does at end of      *)
(* file, and the code does not call ferror; fwrite's return value is not   *)
(* looked at.  At most one failure per invocation.                         *)
(***************************************************************************)
fread_error ==
  /\ pc = "loop"
  /\ pos < Len(inFile)
  /\ ~ioError
  /\ ioError' = TRUE
  /\ pc' = "final"
  /\ UNCHANGED <<run, inFile, pos, outFile, ctx, exitCode, finals, scenario>>

fwrite_error ==
  /\ ~ioError
  /\ \/ \E k \in 1..BUF_SIZE : EncRead(k, FALSE)
     \/ EncFinal(FALSE)
     \/ \E k \in 1..BUF_SIZE : DecRead(k, FALSE)
     \/ DecFinal(FALSE)

(***************************************************************************)
(* The specifications: Spec with streams that do not fail, SpecIO with     *)
(* streams that may.                                                       *)
(***************************************************************************)
Next ==
  \/ main
  \/ encrypt_file_open
  \/ encrypt_file_read
  \/ encrypt_file_eof
  \/ encrypt_file_final
  \/ InvokeDecrypt
  \/ decrypt_file_open
  \/ decrypt_file_read
  \/ decrypt_file_eof
  \/ decrypt_file_final

Spec == Init /\ [][Next]_vars

NextIO ==
  \/ Next
  \/ fread_error
  \/ fwrite_error

SpecIO == Init /\ [][NextIO]_vars

(***************************************************************************)
(* Reference values the properties compare the program's files with.       *)
(***************************************************************************)
Ceil8(n) == (n + BLOCK - 1) \div BLOCK

EncKey == generate_key_iv(pw1)
DecKey == generate_key_iv(pw2)

\* What one EVP_EncryptUpdate / EVP_DecryptUpdate call on all of data gives
\* (no call at all for no data: the loop body does not run).
OneUpdate(enc, k, data) ==
  LET c0 == EVP_CipherInit(enc, k.key, k.iv).ctx
  IN IF Len(data) = 0 THEN [ok |-> TRUE, ctx |-> c0, out |-> << >>]
     ELSE IF enc THEN EVP_EncryptUpdate(c0, data)
     ELSE EVP_DecryptUpdate(c0, data)

\* What a run that reads all of data with one fread writes.
OneChunk(enc, k, data) ==
  LET u == OneUpdate(enc, k, data)
      f == IF enc THEN EVP_EncryptFinal_ex(u.ctx) ELSE EVP_DecryptFinal_ex(u.ctx)
  IN [ok |-> f.ok, out |-> IF f.ok THEN u.out \o f.out ELSE u.out]

\* PKCS#7: 8 - r bytes of value 8 - r after a text with r bytes in its last,
\* partial block (r = 0: a whole block of 8s).
Pkcs7Pad(b) ==
  LET n == BLOCK - (Len(b) % BLOCK) IN b \o Repeat(n, n)

\* The CBC decryption of the whole blocks of the decryption's input.
DecPlain == CbcDecrypt(DecKey.key, DecKey.iv, Take(inFile, BLOCK * (Len(inFile) \div BLOCK)))[1]

\* The padding count the last decrypted block ends with.
PadCount == DecPlain[Len(inFile)]

BadInput ==
  \/ Len(inFile) = 0
  \/ Len(inFile) % BLOCK # 0
  \/ PadCount < 1
  \/ PadCount > BLOCK
  \/ \E i \in (Len(inFile) - PadCount + 1)..Len(inFile) : DecPlain[i] # PadCount

EncDone == run = "enc" /\ pc = "exit"
DecDone == run = "dec" /\ pc = "exit"

(***************************************************************************)
(* C1  Round trip: encrypt_file on b with p ends with status 0, and        *)
(* decrypt_file on the file it wrote, with the same p, ends with status 0  *)
(* and writes exactly b.                                                   *)
(***************************************************************************)
C1_RoundTrip ==
  /\ EncDone => exitCode = 0
  /\ (DecDone /\ tamper.kind = "none" /\ pw2 = pw1) =>
        /\ exitCode = 0
        /\ outFile = plain

\* "hello world" (11 bytes, a partial last block) has made the round trip.
C1_Witness ==
  /\ DecDone
  /\ tamper.kind = "none"
  /\ pw2 = pw1
  /\ plain = HelloWorld
  /\ exitCode = 0
  /\ outFile = HelloWorld

(***************************************************************************)
(* C2  Streaming equivalence: whatever the sizes of the reads, after the   *)
(* first pos bytes the output file and the context (but for the bytes of   *)
(* a held block already written) are what one update on those pos bytes    *)
(* gives, and at the end the output file is what a run     *)
(* with a single read gives, for encrypt_file and for decrypt_file.        *)
(***************************************************************************)
\* A context without the bytes of final that no call reads again.
Live(c) == [c EXCEPT !.final = IF c.final_used THEN @ ELSE << >>]

C2_StreamingEquivalence ==
  LET enc == (run = "enc")
      k == IF enc THEN EncKey ELSE DecKey
  IN /\ pc \in {"loop", "final"} =>
          LET u == OneUpdate(enc, k, Take(inFile, pos))
          IN outFile = u.out /\ Live(ctx) = Live(u.ctx)
     /\ pc = "exit" =>
          LET w == OneChunk(enc, k, inFile)
          IN outFile = w.out /\ (exitCode = 0) = w.ok

\* The read loop of an encryption of 17 bytes stands after a read that ended
\* inside the second block: one block is written, five bytes are buffered.
C2_Witness ==
  /\ run = "enc"
  /\ pc = "loop"
  /\ Len(inFile) = 17
  /\ pos = 13
  /\ Len(ctx.buf) = 5
  /\ Len(outFile) = 8

(***************************************************************************)
(* C3  As claimed: the encryption of n bytes writes n rounded up to a      *)
(* multiple of 8, plus 8 bytes.                                            *)
(***************************************************************************)
C3_Original_RoundUpPlusBlock ==
  EncDone => Len(outFile) = BLOCK * Ceil8(Len(inFile)) + BLOCK

(***************************************************************************)
(* C3  As amended: the encryption of n bytes writes 8 * (n div 8 + 1)      *)
(* bytes: n rounded up to a multiple of 8 when n is not one, n + 8 when    *)
(* it is.                                                                  *)
(***************************************************************************)
C3_OutputLength ==
  EncDone =>
    /\ Len(outFile) = BLOCK * ((Len(inFile) \div BLOCK) + 1)
    /\ Len(inFile) % BLOCK # 0 => Len(outFile) = BLOCK * Ceil8(Len(inFile))
    /\ Len(inFile) % BLOCK = 0 => Len(outFile) = Len(inFile) + BLOCK

\* 11 bytes were encrypted to 16.
C3_Witness ==
  /\ EncDone
  /\ Len(inFile) = 11
  /\ Len(outFile) = 16

(***************************************************************************)
(* C4  Padding correctness: what encrypt_file writes is the CBC encryption *)
(* of the input followed by 8 - r bytes of value 8 - r (r = n mod 8); for  *)
(* the empty input that is one block, the encryption of eight bytes 8; for *)
(* a positive multiple of 8 it is n + 8 bytes ending with the encryption   *)
(* of a block of eight bytes 8.                                            *)
(***************************************************************************)
C4_PaddingCorrectness ==
  EncDone =>
    LET n == Len(inFile)
        r == n % BLOCK
        back == CbcDecrypt(EncKey.key, EncKey.iv, outFile)[1]
    IN /\ Len(outFile) % BLOCK = 0
       /\ back = Pkcs7Pad(inFile)
       /\ n = 0 =>
            outFile = DesEde3Encrypt(EncKey.key, XorBlock(Repeat(BLOCK, BLOCK), EncKey.iv))
       /\ (n > 0 /\ r = 0) =>
            /\ Len(outFile) = n + BLOCK
            /\ Drop(back, n) = Repeat(BLOCK, BLOCK)
       /\ r > 0 =>
            /\ Len(outFile) = n - r + BLOCK
            /\ Drop(back, n) = Repeat(BLOCK - r, BLOCK - r)

\* "hello world" was encrypted to 16 bytes whose last block holds "rld" and
\* five bytes of value 5.
C4_Witness ==
  /\ EncDone
  /\ inFile = HelloWorld
  /\ Len(outFile) = 16
  /\ Drop(CbcDecrypt(EncKey.key, EncKey.iv, outFile)[1], BLOCK)
        = <<114, 108, 100, 5, 5, 5, 5, 5>>

(***************************************************************************)
(* C5  Decryption padding validation: when the input's length is not a     *)
(* positive multiple of 8, or the last byte c of the last decrypted block  *)
(* is not in 1..8, or one of the last c bytes is not c, decrypt_file ends  *)
(* with status 1 and has written nothing of the last block; otherwise it   *)
(* ends with status 0 and has written the decryption without its last c    *)
(* bytes.                                                                  *)
(***************************************************************************)
C5_PaddingValidation ==
  DecDone =>
    LET L == Len(inFile)
    IN IF BadInput
         THEN /\ exitCode = 1
              /\ outFile = Take(DecPlain, IF L = 0 THEN 0 ELSE BLOCK * (Ceil8(L) - 1))
         ELSE /\ exitCode = 0
              /\ outFile = Take(DecPlain, L - PadCount)
              /\ Len(outFile) = L - PadCount

\* A decryption failed on a count in 1..8 that not all the trailing bytes
\* equal.
C5_Witness ==
  /\ DecDone
  /\ exitCode = 1
  /\ Len(inFile) = 16
  /\ PadCount \in 2..BLOCK
  /\ \E i \in (Len(inFile) - PadCount + 1)..Len(inFile) : DecPlain[i] # PadCount
  /\ Len(outFile) = 8

(***************************************************************************)
(* C6  I/O failures are never silently ignored: when a read or a write     *)
(* failed the program ends with a non-zero status, and it ends with status *)
(* 0 only if all the input was read and all that was produced is in the    *)
(* output file.                                                            *)
(***************************************************************************)
C6_IOFailureSurfaced ==
  pc = "exit" =>
    /\ ioError => exitCode # 0
    /\ exitCode = 0 =>
         /\ pos = Len(inFile)
         /\ outFile = OneChunk(run = "enc", IF run = "enc" THEN EncKey ELSE DecKey, inFile).out

(***************************************************************************)
(* C7  The context's life: EVP_*Final_ex is called at most once, and only  *)
(* when all the input has been read; once the program has ended (finalized *)
(* or failed) nothing more is done.                                        *)
(***************************************************************************)
C7_ContextLifecycle ==
  /\ finals <= 1
  /\ finals = 1 => (pc = "exit" /\ pos = Len(inFile))
  /\ pc = "final" => pos = Len(inFile)
  /\ exitCode # -1 => pc = "exit"

(***************************************************************************)
(* C9  The last block is withheld: after every iteration of the read loop  *)
(* of decrypt_file, with pos > 0 bytes read, the output file holds the     *)
(* first 8 * (ceil(pos / 8) - 1) bytes of the decryption, so between 1 and *)
(* 8 of the bytes read are held back.                                      *)
(***************************************************************************)
C9_FinalBlockWithheld ==
  (run = "dec" /\ pc \in {"loop", "final"} /\ pos > 0) =>
    /\ Len(outFile) = BLOCK * (Ceil8(pos) - 1)
    /\ outFile = Take(DecPlain, Len(outFile))
    /\ pos - Len(outFile) \in 1..BLOCK
    /\ Len(ctx.buf) + (IF ctx.final_used THEN BLOCK ELSE 0) = pos - Len(outFile)

\* Two whole blocks were read in the loop and only the first is written.
C9_Witness ==
  /\ run = "dec"
  /\ pc = "loop"
  /\ pos = 16
  /\ Len(inFile) = 24
  /\ Len(outFile) = 8
  /\ ctx.final_used

(***************************************************************************)
(* C10  No retraction: decrypt_file empties the output file when it opens  *)
(* it, from then on only appends to it, and a step that ends it with       *)
(* status 1 leaves the file as it was: not empty when the input had at     *)
(* least two blocks.                                                       *)
(***************************************************************************)
C10_NoRetraction ==
  [][(run = "dec" /\ run' = "dec") =>
       /\ pc = "open" => outFile' = << >>
       /\ pc \in {"loop", "final"} =>
            /\ Len(outFile') >= Len(outFile)
            /\ Take(outFile', Len(outFile)) = outFile
       /\ (pc \in {"open", "loop", "final"} /\ exitCode' = 1) =>
            /\ pc = "open" \/ outFile' = outFile
            /\ Len(inFile) >= 2 * BLOCK => Len(outFile') >= BLOCK]_vars

\* A decryption of two blocks failed at the end and left the first block's
\* plaintext in the output file.
C10_Witness ==
  /\ DecDone
  /\ exitCode = 1
  /\ Len(inFile) = 16
  /\ Len(outFile) = 8
  /\ outFile = Take(DecPlain, 8)

====
